---- MODULE Spec2Model ----
(***************************************************************************)
(* A model of euca2ools/bundle/util.py: the descriptor fence               *)
(* (close_all_fds), the worker launcher (spawn_process, process_wrapper),  *)
(* the liveness probe (pid_exists), the asynchronous reaper                *)
(* (waitpid_in_thread, check_and_waitpid), the certificate fingerprint     *)
(* (get_cert_fingerprint) and the pipe (open_pipe_fileobjs).               *)
(***************************************************************************)
EXTENDS Integers, Sequences, FiniteSets, TLC

(***************************************************************************)
(* Bounds of the model and constants of the program.                      *)
(***************************************************************************)
\* highest of the low descriptor numbers the model opens and preserves
MaxLowFd == 4
\* longest except_fds list handed to close_all_fds
MaxPreserve == 2
\* the literal 1024 of close_all_fds
UpperBound == 1024
\* number of spawn_process calls
MaxSpawns == 2
\* number of threads waitpid_in_thread starts
MaxReapers == 2
\* longest text in front of the last "=" of openssl's output
MaxText == 2
\* most hex pairs of a fingerprint
MaxPairs == 2
\* number of bytes written to the pipe
MaxWrites == 3
\* number of bytes the kernel buffers in a pipe
PipeCapacity == 2

VARIABLES
    open_fds,        \* descriptor table of the calling process: the open descriptors
    fds_at_call,     \* the descriptor table when close_all_fds was entered
    except_fds,      \* the argument of close_all_fds: [given, elems]
    fileno_ranges,   \* the local fileno_ranges of close_all_fds
    fence_pc,        \* "idle", "returned" or "ValueError"
    children,        \* the processes spawn_process created, in order of creation
    threads,         \* the frames of check_and_waitpid: 0 the main thread, 1.. the pid_threads
    caller,          \* the main thread of the parent: the call it is in or came back from
    fingerprint,     \* what openssl wrote to its stdout (line 64), a sequence of characters
    openssl_parts,   \* how that output is made up: [formed, lead, text, pairs, trail]
    cert_result,     \* what get_cert_fingerprint returned
    cert_pc,         \* "idle" or "returned"
    pipe_r,          \* the file object open_pipe_fileobjs returned first
    pipe_w,          \* the file object open_pipe_fileobjs returned second
    pipe_buf,        \* the bytes in the kernel's buffer of the pipe
    written,         \* the bytes handed to pipe_w.write so far
    received         \* the bytes pipe_r.read has returned so far

fence_vars == <<open_fds, fds_at_call, except_fds, fileno_ranges, fence_pc>>
proc_vars == <<children, threads, caller>>
cert_vars == <<fingerprint, openssl_parts, cert_result, cert_pc>>
pipe_vars == <<pipe_r, pipe_w, pipe_buf, written, received>>
vars == <<open_fds, fds_at_call, except_fds, fileno_ranges, fence_pc, children, threads, caller,
          fingerprint, openssl_parts, cert_result, cert_pc,
          pipe_r, pipe_w, pipe_buf, written, received>>

(***************************************************************************)
(* Descriptors and the elements of except_fds.                             *)
(***************************************************************************)
\* the descriptor numbers of the model: the low ones and those around 1024
FdUniverse == (0 .. MaxLowFd) \cup {UpperBound - 1, UpperBound, UpperBound + 1}

\* An element of except_fds: None, an int, an object with a fileno method,
\* or anything else (a str, say).
NoneElem == [kind |-> "None", fd |-> 0]
BadElem == [kind |-> "other", fd |-> 0]
IntElem(d) == [kind |-> "int", fd |-> d]
FileObj(d) == [kind |-> "fileobj", fd |-> d]
\* the numbers except_fds names: the descriptors of the model, a negative
\* number, and a descriptor well above 1024
PreserveValues == FdUniverse \cup {-1, UpperBound + 3}
FdLike == {NoneElem, BadElem} \cup {IntElem(d) : d \in PreserveValues}
              \cup {FileObj(d) : d \in PreserveValues}

\* the arguments close_all_fds is called with: nothing, or a list of elements
NotGiven == [given |-> FALSE, elems |-> <<>>]
ExceptFdsLists(n) == {[given |-> TRUE, elems |-> s] : s \in [1 .. n -> FdLike]}

(***************************************************************************)
(* close_all_fds, lines 34-57.                                             *)
(***************************************************************************)
\* lines 35-46: the loop over except_fds; "ValueError" when an element is
\* neither None, nor an int, nor has a fileno method
RECURSIVE ExceptFilenosFrom(_, _, _)
ExceptFilenosFrom(elems, i, acc) ==
    IF i > Len(elems) THEN [err |-> "none", filenos |-> acc]
    ELSE LET except_fd == elems[i] IN
         CASE except_fd.kind = "None" -> ExceptFilenosFrom(elems, i + 1, acc)
           [] except_fd.kind = "int" -> ExceptFilenosFrom(elems, i + 1, Append(acc, except_fd.fd))
           [] except_fd.kind = "fileobj" -> ExceptFilenosFrom(elems, i + 1, Append(acc, except_fd.fd))
           [] OTHER -> [err |-> "ValueError", filenos |-> acc]

\* a variant that skips an invalid element the way it skips None
RECURSIVE SkipInvalidFrom(_, _, _)
SkipInvalidFrom(elems, i, acc) ==
    IF i > Len(elems) THEN [err |-> "none", filenos |-> acc]
    ELSE IF elems[i].kind \in {"int", "fileobj"}
         THEN SkipInvalidFrom(elems, i + 1, Append(acc, elems[i].fd))
         ELSE SkipInvalidFrom(elems, i + 1, acc)

ExceptFilenosSkipInvalid(arg) == SkipInvalidFrom(arg.elems, 1, <<1, 2>>)

\* a variant without lines 38-39: None falls through to the ValueError
RECURSIVE NoNoneClauseFrom(_, _, _)
NoNoneClauseFrom(elems, i, acc) ==
    IF i > Len(elems) THEN [err |-> "none", filenos |-> acc]
    ELSE IF elems[i].kind \in {"int", "fileobj"}
         THEN NoNoneClauseFrom(elems, i + 1, Append(acc, elems[i].fd))
         ELSE [err |-> "ValueError", filenos |-> acc]

ExceptFilenosNoNoneClause(arg) ==
    IF arg.given THEN NoNoneClauseFrom(arg.elems, 1, <<1, 2>>)
    ELSE [err |-> "none", filenos |-> <<1, 2>>]

ExceptFilenos(arg) ==
    IF arg.given THEN ExceptFilenosFrom(arg.elems, 1, <<1, 2>>)
    ELSE [err |-> "none", filenos |-> <<1, 2>>]

\* sorted(): ascending, duplicates kept
RECURSIVE InsertSorted(_, _)
InsertSorted(s, x) ==
    IF s = <<>> THEN <<x>>
    ELSE IF x < Head(s) THEN <<x>> \o s
    ELSE <<Head(s)>> \o InsertSorted(Tail(s), x)

RECURSIVE Sorted(_)
Sorted(s) == IF s = <<>> THEN <<>> ELSE InsertSorted(Sorted(Tail(s)), Head(s))

Max(a, b) == IF a >= b THEN a ELSE b

\* a variant of line 53 without the + 1
NextRangeMinOffByOne(next_range_min, except_fileno) == Max(next_range_min, except_fileno)

\* line 53: next_range_min = max(next_range_min, except_fileno + 1)
NextRangeMin(next_range_min, except_fileno) == Max(next_range_min, except_fileno + 1)

\* lines 48-54: the walk over sorted(except_filenos)
RECURSIVE RangesFrom(_, _, _, _)
RangesFrom(sorted, i, next_range_min, ranges) ==
    IF i > Len(sorted) THEN Append(ranges, <<next_range_min, UpperBound>>)
    ELSE LET except_fileno == sorted[i]
             appended == IF except_fileno > next_range_min
                         THEN Append(ranges, <<next_range_min, except_fileno - 1>>)
                         ELSE ranges
         IN RangesFrom(sorted, i + 1, NextRangeMin(next_range_min, except_fileno), appended)

FilenoRanges(except_filenos) == RangesFrom(Sorted(except_filenos), 1, 0, <<>>)

\* os.closerange(fd_low, fd_high): closes fd_low .. fd_high - 1, errors ignored
CloseRange(fds, fd_low, fd_high) == {d \in fds : ~(fd_low <= d /\ d < fd_high)}

\* lines 56-57: os.closerange on each range in turn
RECURSIVE CloseRanges(_, _, _)
CloseRanges(fds, ranges, i) ==
    IF i > Len(ranges) THEN fds
    ELSE CloseRanges(CloseRange(fds, ranges[i][1], ranges[i][2]), ranges, i + 1)

\* one call of close_all_fds(except_fds)
close_all_fds(arg) ==
    /\ fence_pc = "idle"
    /\ except_fds' = arg
    /\ fds_at_call' = open_fds
    /\ LET n == ExceptFilenos(arg) IN
       IF n.err # "none"
       THEN /\ fence_pc' = n.err
            /\ UNCHANGED <<open_fds, fileno_ranges>>
       ELSE /\ fileno_ranges' = FilenoRanges(n.filenos)
            /\ open_fds' = CloseRanges(open_fds, FilenoRanges(n.filenos), 1)
            /\ fence_pc' = "returned"

(***************************************************************************)
(* Processes and PIDs.                                                     *)
(***************************************************************************)
\* PIDs of processes of another user (init): os.kill fails with EPERM
OtherUserPids == {1}
\* PIDs of processes of the same user that are no children (the parent itself)
SameUserPids == {2}
\* the PIDs fork hands out; a PID is free again once its process is reaped
ChildPids == {3, 4}
Pids == OtherUserPids \cup SameUserPids \cup ChildPids

ChildIds == 1 .. MaxSpawns
MainThread == 0
ReaperIds == 1 .. MaxReapers
ThreadIds == {MainThread} \cup ReaperIds

\* the units of work: one with a __name__, one without (a functools.partial)
NamedFunc == [has_name |-> TRUE, name |-> "bundle"]
UnnamedFunc == [has_name |-> FALSE, name |-> ""]
Funcs == {NamedFunc, UnnamedFunc}

\* what func(**kwargs) does: returns, or raises KeyboardInterrupt, an
\* Exception, or a BaseException that is neither (SystemExit without args)
Outcomes == {"return", "KeyboardInterrupt", "Exception", "SystemExit"}

\* exitcode -1: no exit status yet
Unborn == [st |-> "unborn", pid |-> 0, func |-> NamedFunc, outcome |-> "none",
           exitcode |-> -1, exit_via |-> "none", stderr |-> <<>>,
           reaped_by |-> "none", reaped_in |-> 0]
\* caught: the errno of the OSError line 121 caught; daemon: pid_thread.daemon
NoFrame == [pc |-> "unstarted", pid |-> 0, target |-> 0, for_gen |-> 0,
            caught |-> "none", daemon |-> FALSE]
Idle == [pc |-> "idle", op |-> "none", pid |-> 0, result |-> "none", for_gen |-> 0]

\* the child that holds pid in the process table (running or zombie), 0 if none
Holder(pid) ==
    IF \E g \in ChildIds : children[g].pid = pid /\ children[g].st \in {"running", "zombie"}
    THEN CHOOSE g \in ChildIds : children[g].pid = pid /\ children[g].st \in {"running", "zombie"}
    ELSE 0

\* os.kill(pid, 0) by the unprivileged parent: the errno
OsKill(pid) ==
    IF pid \in OtherUserPids THEN "EPERM"
    ELSE IF pid \in SameUserPids \/ Holder(pid) # 0 THEN "OK"
    ELSE "ESRCH"

(***************************************************************************)
(* pid_exists, lines 104-114.                                              *)
(***************************************************************************)
\* a variant that answers False on every OSError
PidExistsAnyErrorFalse(pid) == IF OsKill(pid) = "OK" THEN "True" ELSE "False"

PidExists(pid) ==
    LET errno == OsKill(pid) IN
    IF errno = "OK" THEN "True"
    ELSE IF errno = "ESRCH" THEN "False"
    ELSE "OSError"

\* the main thread is between calls
Ready == caller.pc \in {"idle", "returned", "raised"}

\* the main thread calls pid_exists(pid)
pid_exists(pid) ==
    /\ Ready
    /\ caller' = [Idle EXCEPT !.pc = IF PidExists(pid) = "OSError" THEN "raised" ELSE "returned",
                              !.op = "pid_exists", !.pid = pid, !.result = PidExists(pid)]
    /\ UNCHANGED <<children, threads>>
    /\ UNCHANGED <<fence_vars, cert_vars, pipe_vars>>

(***************************************************************************)
(* spawn_process and process_wrapper, lines 84-101.                        *)
(***************************************************************************)
\* Process.start() first polls the children started before (waitpid with
\* WNOHANG), which collects those that have exited
Cleanup(ch) ==
    [g \in ChildIds |->
        IF ch[g].st = "zombie"
        THEN [ch[g] EXCEPT !.st = "reaped", !.pid = 0, !.reaped_by = "_cleanup", !.reaped_in = MainThread]
        ELSE ch[g]]

NextChild == CHOOSE g \in ChildIds : children[g].st = "unborn" /\ \A h \in 1 .. g - 1 : children[h].st # "unborn"

\* lines 85-87: the fork succeeds, the child starts process_wrapper(func)
\* and the Process object is returned
spawn_process(func) ==
    /\ Ready
    /\ \E g \in ChildIds : children[g].st = "unborn"
    /\ \E pid \in {p \in ChildPids : \A h \in ChildIds : ~(children[h].pid = p /\ children[h].st = "running")} :
          /\ children' = [Cleanup(children) EXCEPT ![NextChild] =
                             [Unborn EXCEPT !.st = "running", !.pid = pid, !.func = func]]
          /\ caller' = [Idle EXCEPT !.pc = "returned", !.op = "spawn_process",
                                    !.pid = pid, !.result = "Process"]
    /\ UNCHANGED threads
    /\ UNCHANGED <<fence_vars, cert_vars, pipe_vars>>

\* lines 85-86: the OS refuses the fork; Process.start() raises OSError
spawn_process_fails ==
    /\ Ready
    /\ \E g \in ChildIds : children[g].st = "unborn"
    /\ children' = Cleanup(children)
    /\ caller' = [Idle EXCEPT !.pc = "raised", !.op = "spawn_process", !.result = "OSError"]
    /\ UNCHANGED threads
    /\ UNCHANGED <<fence_vars, cert_vars, pipe_vars>>

\* line 91: name = getattr(func, '__name__', 'unknown')
WrapperName(func) == IF func.has_name THEN func.name ELSE "unknown"

\* lines 97-99: traceback.print_exc() and the message, on stderr
FailureReport(name) == <<[kind |-> "traceback", label |-> ""], [kind |-> "Error in wrapped process", label |-> name]>>

\* What becomes of the child when process_wrapper leaves without os._exit:
\* multiprocessing's Process._bootstrap takes exit code 0 when the target
\* returned, 1 when it raised, and ends the process with os._exit(code)
Bootstrap(raised, stderr) ==
    [exitcode |-> IF raised = "none" THEN 0 ELSE 1, exit_via |-> "_bootstrap",
     stderr |-> IF raised \in {"none", "SystemExit"} THEN stderr
                ELSE stderr \o <<[kind |-> "traceback", label |-> ""]>>]

\* a variant without the except KeyboardInterrupt clause
ProcessWrapperNoInterruptClause(func, outcome) ==
    CASE outcome = "return" -> [exitcode |-> 0, exit_via |-> "os._exit", stderr |-> <<>>]
      [] outcome = "Exception" -> Bootstrap("none", FailureReport(WrapperName(func)))
      [] OTHER -> Bootstrap(outcome, <<>>)

\* a variant whose first clause catches every BaseException but SystemExit
ProcessWrapperReportsInterrupt(func, outcome) ==
    CASE outcome = "return" -> [exitcode |-> 0, exit_via |-> "os._exit", stderr |-> <<>>]
      [] outcome \in {"Exception", "KeyboardInterrupt"} -> Bootstrap("none", FailureReport(WrapperName(func)))
      [] OTHER -> Bootstrap(outcome, <<>>)

\* lines 90-101: process_wrapper(func), by what func does
ProcessWrapper(func, outcome) ==
    CASE outcome = "return" -> [exitcode |-> 0, exit_via |-> "os._exit", stderr |-> <<>>]
      [] outcome = "KeyboardInterrupt" -> [exitcode |-> 0, exit_via |-> "os._exit", stderr |-> <<>>]
      [] outcome = "Exception" -> Bootstrap("none", FailureReport(WrapperName(func)))
      [] OTHER -> Bootstrap(outcome, <<>>)

\* child g runs process_wrapper to its end and terminates
process_wrapper(g, outcome) ==
    /\ children[g].st = "running"
    /\ LET w == ProcessWrapper(children[g].func, outcome) IN
       children' = [children EXCEPT ![g] =
                       [@ EXCEPT !.st = "zombie", !.outcome = outcome, !.exitcode = w.exitcode,
                                 !.exit_via = w.exit_via, !.stderr = w.stderr]]
    /\ UNCHANGED <<threads, caller>>
    /\ UNCHANGED <<fence_vars, cert_vars, pipe_vars>>

(***************************************************************************)
(* waitpid_in_thread and check_and_waitpid, lines 73-81 and 117-122.       *)
(***************************************************************************)
FreeThreads == {t \in ReaperIds : threads[t].pc = "unstarted"}
NextThread == CHOOSE t \in FreeThreads : \A u \in FreeThreads : t <= u

\* a variant of line 78 that starts the thread whatever pid_exists says
WaitpidInThreadNoCheck(pid) ==
    /\ Ready
    /\ FreeThreads # {}
    /\ caller' = [Idle EXCEPT !.pc = "waitpid_in_thread", !.op = "waitpid_in_thread",
                              !.pid = pid, !.for_gen = Holder(pid)]
    /\ UNCHANGED <<children, threads>>
    /\ UNCHANGED <<fence_vars, cert_vars, pipe_vars>>

\* line 78: waitpid_in_thread(pid) is called and asks pid_exists(pid)
waitpid_in_thread(pid) ==
    /\ Ready
    /\ FreeThreads # {}
    /\ LET exists == PidExists(pid) IN
       caller' = [Idle EXCEPT !.pc = CASE exists = "True" -> "waitpid_in_thread"
                                        [] exists = "False" -> "returned"
                                        [] OTHER -> "raised",
                              !.op = "waitpid_in_thread", !.pid = pid,
                              !.result = CASE exists = "True" -> "none"
                                           [] exists = "False" -> "None"
                                           [] OTHER -> "OSError",
                              !.for_gen = IF exists = "True" THEN Holder(pid) ELSE 0]
    /\ UNCHANGED <<children, threads>>
    /\ UNCHANGED <<fence_vars, cert_vars, pipe_vars>>

\* a variant of line 79 that calls check_and_waitpid(pid, 0) instead of
\* handing it to the Thread
PidThreadStartCallsTarget ==
    /\ caller.pc = "waitpid_in_thread"
    /\ threads' = [threads EXCEPT ![MainThread] =
                      [NoFrame EXCEPT !.pc = "start", !.pid = caller.pid, !.for_gen = caller.for_gen]]
    /\ caller' = [caller EXCEPT !.pc = "check_and_waitpid"]
    /\ UNCHANGED children
    /\ UNCHANGED <<fence_vars, cert_vars, pipe_vars>>

\* a variant without line 80: the thread is no daemon
PidThreadStartNotDaemon ==
    /\ caller.pc = "waitpid_in_thread"
    /\ threads' = [threads EXCEPT ![NextThread] =
                      [NoFrame EXCEPT !.pc = "start", !.pid = caller.pid,
                                      !.for_gen = caller.for_gen]]
    /\ caller' = [caller EXCEPT !.pc = "returned", !.result = "None", !.for_gen = 0]
    /\ UNCHANGED children
    /\ UNCHANGED <<fence_vars, cert_vars, pipe_vars>>

\* lines 79-81: the daemon thread is started and waitpid_in_thread returns
pid_thread_start ==
    /\ caller.pc = "waitpid_in_thread"
    /\ threads' = [threads EXCEPT ![NextThread] =
                      [NoFrame EXCEPT !.pc = "start", !.pid = caller.pid,
                                      !.for_gen = caller.for_gen, !.daemon = TRUE]]
    /\ caller' = [caller EXCEPT !.pc = "returned", !.result = "None", !.for_gen = 0]
    /\ UNCHANGED children
    /\ UNCHANGED <<fence_vars, cert_vars, pipe_vars>>

\* check_and_waitpid ends in thread t: normally ("done"), errno being what
\* line 121 caught and dropped, or with the OSError of pid_exists, which
\* ends the thread with a traceback ("raised"); in the main thread its
\* caller goes on
Finish(t, how, errno) ==
    /\ threads' = [threads EXCEPT ![t] = [NoFrame EXCEPT !.pc = how, !.caught = errno]]
    /\ IF t = MainThread
       THEN caller' = [caller EXCEPT !.pc = IF how = "done" THEN "returned" ELSE "raised",
                                     !.result = IF how = "done" THEN "None" ELSE "OSError",
                                     !.for_gen = 0]
       ELSE UNCHANGED caller

\* os.waitpid collects the status of the terminated child g
Collect(g, t) == children' = [children EXCEPT ![g] = [@ EXCEPT !.st = "reaped", !.pid = 0, !.reaped_by = "check_and_waitpid", !.reaped_in = t]]

\* a variant whose liveness check sends SIGKILL instead of signal 0
CheckPidKills(t) ==
    /\ threads[t].pc = "start"
    /\ LET exists == PidExists(threads[t].pid)
           g == Holder(threads[t].pid) IN
       /\ CASE exists = "True" -> threads' = [threads EXCEPT ![t].pc = "checked"] /\ UNCHANGED caller
            [] exists = "False" -> Finish(t, "done", "none")
            [] OTHER -> Finish(t, "raised", "none")
       /\ IF g # 0 /\ children[g].st = "running"
          THEN children' = [children EXCEPT ![g] = [@ EXCEPT !.st = "zombie", !.outcome = "SIGKILL",
                                                            !.exitcode = -9, !.exit_via = "signal"]]
          ELSE UNCHANGED children
    /\ UNCHANGED <<fence_vars, cert_vars, pipe_vars>>

\* line 118: if pid_exists(pid)
check_pid(t) ==
    /\ threads[t].pc = "start"
    /\ LET exists == PidExists(threads[t].pid) IN
       CASE exists = "True" -> threads' = [threads EXCEPT ![t].pc = "checked"] /\ UNCHANGED caller
         [] exists = "False" -> Finish(t, "done", "none")
         [] OTHER -> Finish(t, "raised", "none")
    /\ UNCHANGED children
    /\ UNCHANGED <<fence_vars, cert_vars, pipe_vars>>

\* a variant without the try/except of lines 119-122: the OSError of
\* os.waitpid ends the thread
EnterWaitpidNoExcept(t) ==
    /\ threads[t].pc = "checked"
    /\ LET g == Holder(threads[t].pid) IN
       IF g = 0 THEN Finish(t, "raised", "none") /\ UNCHANGED children
       ELSE IF children[g].st = "zombie" THEN Finish(t, "done", "none") /\ Collect(g, t)
       ELSE /\ threads' = [threads EXCEPT ![t].pc = "waiting", ![t].target = g]
            /\ UNCHANGED <<children, caller>>
    /\ UNCHANGED <<fence_vars, cert_vars, pipe_vars>>

\* line 120: os.waitpid(pid, 0) is entered: ECHILD when pid is no child of
\* the parent, the status when the child has terminated, else the thread
\* blocks on the child that holds pid now
enter_waitpid(t) ==
    /\ threads[t].pc = "checked"
    /\ LET g == Holder(threads[t].pid) IN
       IF g = 0 THEN Finish(t, "done", "ECHILD") /\ UNCHANGED children
       ELSE IF children[g].st = "zombie" THEN Finish(t, "done", "none") /\ Collect(g, t)
       ELSE /\ threads' = [threads EXCEPT ![t].pc = "waiting", ![t].target = g]
            /\ UNCHANGED <<children, caller>>
    /\ UNCHANGED <<fence_vars, cert_vars, pipe_vars>>

\* lines 120-122: the blocked os.waitpid returns: with the status of its
\* child, or with ECHILD when the child was collected by someone else
leave_waitpid(t) ==
    /\ threads[t].pc = "waiting"
    /\ LET g == threads[t].target IN
       \/ children[g].st = "zombie" /\ Finish(t, "done", "none") /\ Collect(g, t)
       \/ children[g].st = "reaped" /\ Finish(t, "done", "ECHILD") /\ UNCHANGED children
    /\ UNCHANGED <<fence_vars, cert_vars, pipe_vars>>

\* lines 120-122: a signal handled in thread t interrupts os.waitpid while
\* it blocks on the running child; it raises OSError with EINTR, which
\* line 121 catches
interrupt_waitpid(t) ==
    /\ threads[t].pc = "waiting"
    /\ children[threads[t].target].st = "running"
    /\ Finish(t, "done", "EINTR")
    /\ UNCHANGED children
    /\ UNCHANGED <<fence_vars, cert_vars, pipe_vars>>

\* The main thread ends the program. The interpreter waits for the threads
\* that are not daemons; the daemon threads are abandoned, the children
\* that still run are orphaned.
parent_exit ==
    /\ Ready
    /\ \A t \in ReaperIds : threads[t].pc \in {"start", "checked", "waiting"} => threads[t].daemon
    /\ caller' = [Idle EXCEPT !.pc = "exited", !.op = "exit"]
    /\ threads' = [t \in ThreadIds |->
                      IF threads[t].pc \in {"start", "checked", "waiting"}
                      THEN [threads[t] EXCEPT !.pc = "abandoned"]
                      ELSE threads[t]]
    /\ UNCHANGED children
    /\ UNCHANGED <<fence_vars, cert_vars, pipe_vars>>

(***************************************************************************)
(* get_cert_fingerprint, lines 60-65. Strings are sequences of characters. *)
(***************************************************************************)
\* characters of the text in front of the fingerprint, and of the hex pairs
TextChars == {"F", "=", " "}
HexChars == {"A", "b", "7"}
\* the characters str.strip() removes
Whitespace == {" ", "\n"}

\* sequences over chars of length 0 .. n
SeqsUpTo(chars, n) == UNION {[1 .. k -> chars] : k \in 0 .. n}

RECURSIVE Join(_, _)
Join(pairs, sep) ==
    IF pairs = <<>> THEN <<>>
    ELSE IF Len(pairs) = 1 THEN pairs[1]
    ELSE pairs[1] \o sep \o Join(Tail(pairs), sep)

\* what openssl x509 -fingerprint -sha1 -noout prints for a certificate:
\* "<text>=<hex pairs separated by colons>", whitespace around it
FormedParts ==
    {[formed |-> TRUE, lead |-> l, text |-> t, pairs |-> ps, trail |-> r] :
        l \in {<<>>, <<" ">>}, t \in SeqsUpTo(TextChars, MaxText),
        ps \in UNION {[1 .. k -> [1 .. 2 -> HexChars]] : k \in 1 .. MaxPairs},
        r \in {<<>>, <<"\n">>, <<" ", "\n">>}}
\* the example "SHA1 Fingerprint=AA:BB:CC:DD", as openssl prints it
ExampleParts ==
    [formed |-> TRUE, lead |-> <<>>,
     text |-> <<"S", "H", "A", "1", " ", "F", "i", "n", "g", "e", "r", "p", "r", "i", "n", "t">>,
     pairs |-> <<(<<"A", "A">>), (<<"B", "B">>), (<<"C", "C">>), (<<"D", "D">>)>>, trail |-> <<"\n">>]
\* what it prints otherwise (nothing, when the file is no certificate)
OtherParts ==
    {[formed |-> FALSE, lead |-> <<>>, text |-> t, pairs |-> <<>>, trail |-> r] :
        t \in SeqsUpTo(TextChars, MaxText), r \in {<<>>, <<"\n">>}}

\* line 64: the output communicate() hands back
Stdout(parts) ==
    IF parts.formed
    THEN parts.lead \o parts.text \o <<"=">> \o Join(parts.pairs, <<":">>) \o parts.trail
    ELSE parts.text \o parts.trail

\* str.strip()
RECURSIVE LStrip(_)
LStrip(s) == IF s # <<>> /\ Head(s) \in Whitespace THEN LStrip(Tail(s)) ELSE s
RECURSIVE RStrip(_)
RStrip(s) == IF s # <<>> /\ s[Len(s)] \in Whitespace THEN RStrip(SubSeq(s, 1, Len(s) - 1)) ELSE s
Strip(s) == RStrip(LStrip(s))

\* a variant with split in place of rsplit: s.split('=', 1)[-1]
RECURSIVE AfterFirstFrom(_, _)
AfterFirstFrom(s, i) ==
    IF i > Len(s) THEN s
    ELSE IF s[i] = "=" THEN SubSeq(s, i + 1, Len(s))
    ELSE AfterFirstFrom(s, i + 1)
SplitLast(s) == AfterFirstFrom(s, 1)

\* s.rsplit('=', 1)[-1]: what follows the rightmost "=", all of s without one
RECURSIVE AfterLastFrom(_, _)
AfterLastFrom(s, i) ==
    IF i = 0 THEN s
    ELSE IF s[i] = "=" THEN SubSeq(s, i + 1, Len(s))
    ELSE AfterLastFrom(s, i - 1)
RsplitLast(s) == AfterLastFrom(s, Len(s))

\* s.replace(':', '')
RECURSIVE ReplaceColons(_)
ReplaceColons(s) ==
    IF s = <<>> THEN <<>>
    ELSE IF Head(s) = ":" THEN ReplaceColons(Tail(s))
    ELSE <<Head(s)>> \o ReplaceColons(Tail(s))

\* str.lower() on the letters of the model
LowerChar(c) ==
    CASE c = "A" -> "a" [] c = "B" -> "b" [] c = "C" -> "c" [] c = "D" -> "d"
      [] c = "F" -> "f" [] c = "H" -> "h" [] c = "S" -> "s" [] OTHER -> c
Lower(s) == [i \in DOMAIN s |-> LowerChar(s[i])]

\* line 65
GetCertFingerprint(stdout) == Lower(ReplaceColons(RsplitLast(Strip(stdout))))

\* one call of get_cert_fingerprint on a file for which openssl has
\* printed fingerprint
get_cert_fingerprint ==
    /\ cert_pc = "idle"
    /\ cert_result' = GetCertFingerprint(fingerprint)
    /\ cert_pc' = "returned"
    /\ UNCHANGED <<fingerprint, openssl_parts>>
    /\ UNCHANGED <<fence_vars, proc_vars, pipe_vars>>

(***************************************************************************)
(* open_pipe_fileobjs, lines 68-70, and the pipe it creates.               *)
(***************************************************************************)
Bytes == {"a", "b"}

\* a file object: the end of the pipe its descriptor is (os.pipe() returns
\* the read end first), its mode, the bytes write() has put in its buffer,
\* and whether read() has met the end of the stream
NoFile == [end |-> "none", mode |-> "none", open |-> FALSE, buf |-> <<>>, eof |-> FALSE]
FdOpen(end, mode) == [end |-> end, mode |-> mode, open |-> TRUE, buf |-> <<>>, eof |-> FALSE]

\* a variant that wraps the descriptors the other way round
OpenPipeFileobjsSwapped ==
    /\ ~pipe_r.open /\ ~pipe_w.open /\ written = <<>>
    /\ pipe_r' = FdOpen("write", "r")
    /\ pipe_w' = FdOpen("read", "w")
    /\ UNCHANGED <<pipe_buf, written, received>>
    /\ UNCHANGED <<fence_vars, proc_vars, cert_vars>>

\* lines 69-70
open_pipe_fileobjs ==
    /\ ~pipe_r.open /\ ~pipe_w.open /\ written = <<>>
    /\ pipe_r' = FdOpen("read", "r")
    /\ pipe_w' = FdOpen("write", "w")
    /\ UNCHANGED <<pipe_buf, written, received>>
    /\ UNCHANGED <<fence_vars, proc_vars, cert_vars>>

\* pipe_w.write(b): the byte goes into the buffer of the file object
write(b) ==
    /\ pipe_w.open /\ pipe_w.mode = "w"
    /\ Len(written) < MaxWrites
    /\ pipe_w' = [pipe_w EXCEPT !.buf = Append(@, b)]
    /\ written' = Append(written, b)
    /\ UNCHANGED <<pipe_r, pipe_buf, received>>
    /\ UNCHANGED <<fence_vars, proc_vars, cert_vars>>

\* the file object hands its oldest byte to the kernel (its buffer is full,
\* or flush() or close() is under way), when the pipe has room
flush ==
    /\ pipe_w.open /\ pipe_w.end = "write"
    /\ pipe_w.buf # <<>>
    /\ Len(pipe_buf) < PipeCapacity
    /\ pipe_buf' = Append(pipe_buf, Head(pipe_w.buf))
    /\ pipe_w' = [pipe_w EXCEPT !.buf = Tail(@)]
    /\ UNCHANGED <<pipe_r, written, received>>
    /\ UNCHANGED <<fence_vars, proc_vars, cert_vars>>

\* pipe_w.close() returns: on the write end once the buffer is flushed;
\* on a descriptor that cannot be written the buffer is lost
close_w ==
    /\ pipe_w.open
    /\ pipe_w.end = "write" => pipe_w.buf = <<>>
    /\ pipe_w' = [pipe_w EXCEPT !.open = FALSE, !.buf = <<>>]
    /\ UNCHANGED <<pipe_r, pipe_buf, written, received>>
    /\ UNCHANGED <<fence_vars, proc_vars, cert_vars>>

\* pipe_r.read(1): the oldest byte of the pipe; the end of the stream when
\* the pipe is empty and its write end is closed; else the call blocks
read ==
    /\ pipe_r.open /\ pipe_r.mode = "r" /\ pipe_r.end = "read"
    /\ ~pipe_r.eof
    /\ \/ /\ pipe_buf # <<>>
          /\ received' = Append(received, Head(pipe_buf))
          /\ pipe_buf' = Tail(pipe_buf)
          /\ UNCHANGED pipe_r
       \/ /\ pipe_buf = <<>>
          /\ ~(pipe_w.open /\ pipe_w.end = "write")
          /\ pipe_r' = [pipe_r EXCEPT !.eof = TRUE]
          /\ UNCHANGED <<pipe_buf, received>>
    /\ UNCHANGED <<pipe_w, written>>
    /\ UNCHANGED <<fence_vars, proc_vars, cert_vars>>

(***************************************************************************)
(* The specifications.                                                     *)
(***************************************************************************)
ProcInit ==
    /\ children = [g \in ChildIds |-> Unborn]
    /\ threads = [t \in ThreadIds |-> NoFrame]
    /\ caller = Idle

\* get_cert_fingerprint is not called
NoCert ==
    /\ fingerprint = <<>>
    /\ openssl_parts = [formed |-> FALSE, lead |-> <<>>, text |-> <<>>, pairs |-> <<>>, trail |-> <<>>]
    /\ cert_result = <<>>
    /\ cert_pc = "idle"

\* open_pipe_fileobjs is not called
NoPipe ==
    /\ pipe_r = NoFile
    /\ pipe_w = NoFile
    /\ pipe_buf = <<>>
    /\ written = <<>>
    /\ received = <<>>

\* the descriptor table before the call: any descriptor of the universe may
\* be the one that was never opened
FenceInit ==
    /\ open_fds \in {FdUniverse} \cup {FdUniverse \ {d} : d \in FdUniverse}
    /\ fds_at_call = {}
    /\ except_fds = NotGiven
    /\ fileno_ranges = <<>>
    /\ fence_pc = "idle"
    /\ ProcInit
    /\ NoCert
    /\ NoPipe

FenceNext ==
    /\ fence_pc = "idle"
    /\ \/ close_all_fds(NotGiven)
       \/ \E n \in 0 .. MaxPreserve : \E arg \in ExceptFdsLists(n) : close_all_fds(arg)
    /\ UNCHANGED <<proc_vars, cert_vars, pipe_vars>>

FenceSpec == FenceInit /\ [][FenceNext]_vars

\* the processes and threads, in a parent that holds descriptors 0, 1 and 2
Init ==
    /\ open_fds = {0, 1, 2}
    /\ fds_at_call = {}
    /\ except_fds = NotGiven
    /\ fileno_ranges = <<>>
    /\ fence_pc = "idle"
    /\ ProcInit
    /\ NoCert
    /\ NoPipe

\* the launcher alone: every unit of work and every outcome
WorkerNext ==
    \/ \E func \in Funcs : spawn_process(func)
    \/ spawn_process_fails
    \/ \E g \in ChildIds, outcome \in Outcomes : process_wrapper(g, outcome)

WorkerSpec == Init /\ [][WorkerNext]_vars

\* the probe, on the PIDs of children that come, terminate and are collected
ProbeNext ==
    \/ spawn_process(NamedFunc)
    \/ \E g \in ChildIds, outcome \in Outcomes : process_wrapper(g, outcome)
    \/ \E pid \in Pids : pid_exists(pid)

ProbeSpec == Init /\ [][ProbeNext]_vars

\* the reaper, on the PIDs of children that come, terminate (with exit code
\* 0 or 1) and are collected
ReaperNext ==
    \/ spawn_process(NamedFunc)
    \/ \E g \in ChildIds, outcome \in {"return", "SystemExit"} : process_wrapper(g, outcome)
    \/ \E pid \in Pids : waitpid_in_thread(pid)
    \/ pid_thread_start
    \/ \E t \in ThreadIds : check_pid(t)
    \/ \E t \in ThreadIds : enter_waitpid(t)
    \/ \E t \in ThreadIds : leave_waitpid(t)
    \/ \E t \in ThreadIds : interrupt_waitpid(t)
    \/ parent_exit

ReaperSpec == Init /\ [][ReaperNext]_vars

\* the threads of the parent are scheduled fairly, and the main thread
\* finishes the call it is in; nothing makes a unit of work end or the main
\* thread call anything
ReaperFairness ==
    /\ WF_vars(pid_thread_start)
    /\ \A t \in ReaperIds :
          /\ WF_vars(check_pid(t))
          /\ WF_vars(enter_waitpid(t))
          /\ WF_vars(leave_waitpid(t))

FairReaperSpec == ReaperSpec /\ ReaperFairness

\* get_cert_fingerprint on every output of the model
CertInit ==
    /\ open_fds = {0, 1, 2}
    /\ fds_at_call = {}
    /\ except_fds = NotGiven
    /\ fileno_ranges = <<>>
    /\ fence_pc = "idle"
    /\ ProcInit
    /\ openssl_parts \in FormedParts \cup {ExampleParts} \cup OtherParts
    /\ fingerprint = Stdout(openssl_parts)
    /\ cert_result = <<>>
    /\ cert_pc = "idle"
    /\ NoPipe

CertNext == get_cert_fingerprint

CertSpec == CertInit /\ [][CertNext]_vars

\* one pipe, a writer and a reader
PipeNext ==
    \/ open_pipe_fileobjs
    \/ \E b \in Bytes : write(b)
    \/ flush
    \/ close_w
    \/ read

PipeSpec == Init /\ [][PipeNext]_vars

\* the writer and the reader go on: a started flush or read is not put off
\* for ever; nothing makes the writer write or close
PipeFairness == WF_vars(flush) /\ WF_vars(read)

FairPipeSpec == PipeSpec /\ PipeFairness

(***************************************************************************)
(* Properties of the descriptor fence.                                     *)
(***************************************************************************)
\* normalize(P): the descriptor numbers named by the valid elements of P
PreservedSet(arg) == {arg.elems[i].fd : i \in {j \in DOMAIN arg.elems : arg.elems[j].kind \in {"int", "fileobj"}}}
HasInvalid(arg) == \E i \in DOMAIN arg.elems : arg.elems[i].kind \notin {"None", "int", "fileobj"}

\* C1: when close_all_fds returns, every descriptor d with 0 <= d <= 1024
\* outside normalize(P) \cup {1, 2} is closed (both endpoints of every gap
\* included).
C1_EveryGapDescriptorClosed ==
    fence_pc = "returned" =>
        \A d \in 0 .. UpperBound :
            d \notin (PreservedSet(except_fds) \cup {1, 2}) => d \notin open_fds

\* C2: every descriptor of normalize(P) \cup {1, 2} that was open before
\* close_all_fds(P) is open after it.
C2_PreservedStayOpen ==
    fence_pc = "returned" =>
        \A d \in (PreservedSet(except_fds) \cup {1, 2}) \cap fds_at_call : d \in open_fds

\* a call with a duplicated preserved descriptor, 1 and 2 not in P, that
\* closed descriptor 1023 and kept 1, 2 and 4
C2_Witness ==
    /\ fence_pc = "returned"
    /\ except_fds.elems = <<FileObj(4), IntElem(4)>>
    /\ {1, 2, 4, UpperBound - 1} \subseteq fds_at_call
    /\ {1, 2, 4} \subseteq open_fds
    /\ (UpperBound - 1) \notin open_fds

Exited(g) == children[g].st \in {"zombie", "reaped"}
\* the failure diagnostics process_wrapper wrote in child g
Reports(g) == {i \in DOMAIN children[g].stderr : children[g].stderr[i].kind = "Error in wrapped process"}

\* C4: a worker whose unit of work raised an Exception terminates with a
\* non-zero exit status, and the parent's spawn_process does not raise it.
C4_FailedWorkerExitsNonZero ==
    \A g \in ChildIds :
        (Exited(g) /\ children[g].outcome = "Exception") =>
            /\ children[g].exitcode # 0
            /\ ~(caller.pc = "raised" /\ caller.result = "Exception")

\* C5: a worker whose unit of work returned, or raised KeyboardInterrupt,
\* terminates with exit status 0.
C5_CleanWorkerExitsZero ==
    \A g \in ChildIds :
        (children[g].st # "unborn" /\ children[g].outcome \in {"return", "KeyboardInterrupt"}) =>
            (Exited(g) /\ children[g].exitcode = 0)

\* one worker returned and another was interrupted
C5_Witness ==
    \E g, h \in ChildIds :
        /\ children[g].outcome = "return" /\ Exited(g)
        /\ children[h].outcome = "KeyboardInterrupt" /\ Exited(h)

\* C6: process_wrapper writes its failure diagnostic exactly when the unit
\* of work raised an Exception, once, labelled with the unit's name or
\* "unknown"; a return and a KeyboardInterrupt write nothing.
C6_DiagnosticIffError ==
    \A g \in ChildIds :
        Exited(g) =>
            /\ (children[g].outcome = "Exception") <=> (Reports(g) # {})
            /\ Cardinality(Reports(g)) <= 1
            /\ \A i \in Reports(g) :
                   children[g].stderr[i].label =
                       IF children[g].func.has_name THEN children[g].func.name ELSE "unknown"
            /\ (children[g].outcome \in {"return", "KeyboardInterrupt"}) => (children[g].stderr = <<>>)

\* a nameless unit of work failed and a named one was interrupted
C6_Witness ==
    \E g, h \in ChildIds :
        /\ Exited(g) /\ children[g].outcome = "Exception" /\ ~children[g].func.has_name
        /\ \E i \in Reports(g) : children[g].stderr[i].label = "unknown"
        /\ Exited(h) /\ children[h].outcome = "KeyboardInterrupt" /\ children[h].func.has_name

(***************************************************************************)
(* Properties of the liveness probe and the reaper.                        *)
(***************************************************************************)
\* C7: a call of pid_exists(pid) returns False exactly when os.kill reports
\* ESRCH, returns True when os.kill succeeds, and raises on any other
\* errno.
C7_ProbeTellsErrnosApart ==
    [][(caller' # caller /\ caller'.op = "pid_exists") =>
         LET errno == OsKill(caller'.pid) IN
         /\ (caller'.pc = "returned" /\ caller'.result = "False") <=> (errno = "ESRCH")
         /\ (errno = "OK") => (caller'.pc = "returned" /\ caller'.result = "True")
         /\ (errno \notin {"OK", "ESRCH"}) => (caller'.pc = "raised" /\ caller'.result = "OSError")]_vars

\* pid_exists raised on the PID of another user's process, after a child
\* came and went
C7_Witness ==
    /\ caller.op = "pid_exists"
    /\ caller.pid \in OtherUserPids
    /\ caller.pc = "raised"
    /\ \E g \in ChildIds : children[g].st = "reaped"

\* C8: waitpid_in_thread(pid) on a PID that no process holds returns None,
\* starts no thread and changes no process.
C8_NoProcessNoOp ==
    [][(Ready /\ caller' # caller /\ caller'.op = "waitpid_in_thread"
          /\ OsKill(caller'.pid) = "ESRCH") =>
         /\ caller'.pc = "returned"
         /\ caller'.result = "None"
         /\ threads' = threads
         /\ children' = children]_vars

\* waitpid_in_thread(3) came back after the child that held PID 3 was
\* collected, and no thread was ever started
C8_Witness ==
    /\ caller.op = "waitpid_in_thread"
    /\ caller.pc = "returned"
    /\ caller.pid = 3
    /\ OsKill(3) = "ESRCH"
    /\ \E g \in ChildIds : children[g].st = "reaped"
    /\ \A t \in ThreadIds : threads[t].pc = "unstarted"

\* C9: the main thread never executes check_and_waitpid, so it is never
\* inside os.waitpid; inside waitpid_in_thread its next step, starting the
\* thread and returning, is never blocked.
C9_CallerNeverWaits ==
    /\ threads[MainThread].pc = "unstarted"
    /\ caller.pc # "check_and_waitpid"
    /\ \A t \in ThreadIds : threads[t].pc = "waiting" => t \in ReaperIds
    /\ (caller.pc = "waitpid_in_thread") => ENABLED pid_thread_start

\* waitpid_in_thread has returned while the child runs and its thread is
\* blocked in os.waitpid
C9_Witness ==
    /\ caller.op = "waitpid_in_thread"
    /\ caller.pc = "returned"
    /\ \E t \in ReaperIds :
          /\ threads[t].pc = "waiting"
          /\ threads[t].pid = caller.pid
          /\ children[threads[t].target].st = "running"

\* C10: a started check_and_waitpid thread whose supervised child (the one
\* that held its PID when waitpid_in_thread was called) has terminated or
\* is gone eventually finishes (or ends with the parent).
C10_ReaperFinishes ==
    \A t \in ReaperIds :
        (/\ threads[t].pc \in {"start", "checked", "waiting"}
         /\ threads[t].for_gen # 0
         /\ children[threads[t].for_gen].st # "running")
        ~> (threads[t].pc \in {"done", "raised", "abandoned"})

\* the thread is started and has not ended
Live(t) == threads[t].pc \in {"start", "checked", "waiting"}

\* C11: while a spawned child is in the process table (its exit status is
\* not collected) pid_exists of its PID answers True; and a child for which
\* waitpid_in_thread started a thread while it existed is, once it has
\* terminated, eventually removed from the process table, after which
\* pid_exists of its PID answers False unless the PID was handed out again
\* (the parent living on).
C11_SupervisedChildIsReaped ==
    /\ [](\A g \in ChildIds :
            children[g].st \in {"running", "zombie"} => PidExists(children[g].pid) = "True")
    /\ \A g \in ChildIds, t \in ReaperIds, p \in ChildPids :
          []((Live(t) /\ threads[t].for_gen = g /\ children[g].pid = p) =>
                [](children[g].st = "zombie" =>
                     <>(\/ caller.pc = "exited"
                        \/ /\ children[g].st = "reaped"
                           /\ (PidExists(p) = "False" \/ Holder(p) # 0))))

\* C12: when os.waitpid in a thread fails because the parent has no child
\* with that PID (any more), the thread ends normally, having caught
\* ECHILD, and no process changes; no check_and_waitpid thread ends with an
\* error; and the status of a child is collected once: a collected child
\* never changes again.
C12_VanishedChildEndsReaperQuietly ==
    [][/\ \A t \in ReaperIds :
            (/\ threads'[t] # threads[t]
             /\ threads'[t].pc # "abandoned"
             /\ \/ threads[t].pc = "checked" /\ Holder(threads[t].pid) = 0
                \/ threads[t].pc = "waiting" /\ children[threads[t].target].st = "reaped")
            => (/\ threads'[t].pc = "done"
                /\ threads'[t].caught = "ECHILD"
                /\ children' = children)
       /\ \A t \in ReaperIds : threads'[t].pc # "raised"
       /\ \A g \in ChildIds : children[g].st = "reaped" => children'[g] = children[g]]_vars

\* two threads blocked in os.waitpid on the same child; thread 1 has
\* collected its status and ended, the wait of thread 2 is about to fail
C12_Witness ==
    /\ threads[1].pc = "done"
    /\ threads[1].caught = "none"
    /\ threads[2].pc = "waiting"
    /\ children[threads[2].target].st = "reaped"
    /\ children[threads[2].target].reaped_by = "check_and_waitpid"
    /\ children[threads[2].target].reaped_in = 1

\* C13: the only OSError a check_and_waitpid thread drops silently is the
\* one of a vanished child (ECHILD); any other error ends the thread with a
\* report (the traceback of an uncaught exception), and the parent lives on.
C13_OnlyVanishedChildErrorDropped ==
    \A t \in ReaperIds :
        /\ threads[t].pc = "done" => threads[t].caught \in {"none", "ECHILD"}
        /\ threads[t].pc = "raised" => caller.pc # "exited"

\* C14: a check_and_waitpid thread never keeps the parent from ending:
\* whenever the main thread is between calls the program can end, whatever
\* the threads are doing, and the main thread itself never runs the wait.
C14_ReapersNeverHoldUpExit ==
    /\ threads[MainThread].pc = "unstarted"
    /\ Ready => ENABLED parent_exit
    /\ \A t \in ReaperIds : Live(t) => threads[t].daemon

\* the parent has ended while both threads were blocked in os.waitpid on
\* children that still run
C14_Witness ==
    /\ caller.pc = "exited"
    /\ \A t \in ReaperIds :
          /\ threads[t].pc = "abandoned"
          /\ threads[t].target # 0
          /\ children[threads[t].target].st = "running"

\* a step of the supervision: of a check_and_waitpid thread, or of
\* waitpid_in_thread and its pid_exists in the main thread
SupervisionStep ==
    \/ threads' # threads
    \/ caller' # caller /\ caller'.op \in {"waitpid_in_thread", "pid_exists"}

\* C20: no step of the supervision (pid_exists, waitpid_in_thread, a
\* check_and_waitpid thread) makes a process start or terminate or changes
\* an exit code or anything else of a process; the only change it ever
\* makes is to remove the process-table entry of a terminated child.
C20_SupervisionLeavesProcessesAlone ==
    [][SupervisionStep =>
         \A g \in ChildIds :
            \/ children'[g] = children[g]
            \/ /\ children[g].st = "zombie"
               /\ \E t \in ReaperIds :
                     children'[g] = [children[g] EXCEPT !.st = "reaped", !.pid = 0,
                                                        !.reaped_by = "check_and_waitpid",
                                                        !.reaped_in = t]]_vars

\* a thread has collected a child that had ended with exit code 1, while
\* another supervised child still runs
C20_Witness ==
    \E g, h \in ChildIds, t \in ReaperIds :
        /\ children[g].st = "reaped"
        /\ children[g].reaped_by = "check_and_waitpid"
        /\ children[g].exitcode = 1
        /\ children[h].st = "running"
        /\ threads[t].pc = "waiting"
        /\ threads[t].target = h

\* C19: in the child, process_wrapper never gives control back to what
\* called it: after a unit of work that returned, was interrupted or raised
\* an Exception, the child has ended through process_wrapper's own
\* os._exit.
C19_WrapperEndsTheProcessItself ==
    \A g \in ChildIds :
        (Exited(g) /\ children[g].outcome \in {"return", "KeyboardInterrupt", "Exception"}) =>
            children[g].exit_via = "os._exit"

\* the numbers of the closed interval a range of fileno_ranges stands for
Interval(range) == {d \in -1 .. UpperBound + 3 : range[1] <= d /\ d <= range[2]}

\* C17: the ranges close_all_fds computes, read as closed intervals, are
\* ascending and pairwise disjoint, each has min <= max, none contains a
\* member of normalize(P) \cup {1, 2}, and their union is exactly
\* [0, 1024] minus normalize(P) \cup {1, 2}.
C17_RangesPartitionTheGaps ==
    fence_pc = "returned" =>
        LET kept == PreservedSet(except_fds) \cup {1, 2} IN
        /\ \A i \in DOMAIN fileno_ranges : fileno_ranges[i][1] <= fileno_ranges[i][2]
        /\ \A i, j \in DOMAIN fileno_ranges :
              i < j => fileno_ranges[i][2] < fileno_ranges[j][1]
        /\ \A i \in DOMAIN fileno_ranges : Interval(fileno_ranges[i]) \cap kept = {}
        /\ UNION {Interval(fileno_ranges[i]) : i \in DOMAIN fileno_ranges}
              = (0 .. UpperBound) \ kept

\* C18: close_all_fds closes no descriptor above 1024: every descriptor
\* d > 1024 that was open at the call is open after it.
C18_NothingAboveBoundClosed ==
    fence_pc = "returned" =>
        \A d \in fds_at_call : d > UpperBound => d \in open_fds

\* C16: for an output "<text>=<hex pairs separated by colons>" with
\* whitespace around it get_cert_fingerprint returns what follows the last
\* "=", without the colons and in lower case: the hex digits of the pairs
\* in order, lowercased; for "SHA1 Fingerprint=AA:BB:CC:DD" it returns
\* "aabbccdd".
C16_FingerprintIsLowercaseHex ==
    cert_pc = "returned" =>
        /\ openssl_parts.formed =>
              /\ Len(cert_result) = 2 * Len(openssl_parts.pairs)
              /\ \A i \in DOMAIN openssl_parts.pairs, k \in 1 .. 2 :
                    cert_result[2 * (i - 1) + k] = LowerChar(openssl_parts.pairs[i][k])
              /\ \A j \in DOMAIN cert_result : cert_result[j] \notin {":", "=", " ", "\n", "A", "B", "C", "D"}
        /\ openssl_parts = ExampleParts =>
              cert_result = <<"a", "a", "b", "b", "c", "c", "d", "d">>

\* the example, as openssl prints it, has been parsed
C16_Witness ==
    /\ cert_pc = "returned"
    /\ openssl_parts = ExampleParts
    /\ fingerprint = <<"S", "H", "A", "1", " ", "F", "i", "n", "g", "e", "r", "p", "r", "i", "n", "t",
                       "=", "A", "A", ":", "B", "B", ":", "C", "C", ":", "D", "D", "\n">>
    /\ cert_result = <<"a", "a", "b", "b", "c", "c", "d", "d">>

\* C15: what has been read from the read end, followed by what is still
\* under way, is what has been written to the write end, in that order;
\* the end of the stream is seen only after everything written has been
\* read and the write end is closed; and once the write end is closed the
\* reader sees the end of the stream.
C15_PipeIsFifoWithEof ==
    /\ [](pipe_r.open =>
            /\ received \o pipe_buf \o pipe_w.buf = written
            /\ pipe_r.eof => (received = written /\ ~pipe_w.open))
    /\ (pipe_r.open /\ ~pipe_w.open) ~> pipe_r.eof

\* the writer wrote a, b and more and closed; the reader has read it all
\* and seen the end of the stream
C15_Witness ==
    /\ pipe_r.eof
    /\ ~pipe_w.open
    /\ Len(received) = MaxWrites
    /\ received[1] = "a"
    /\ received[2] = "b"
    /\ received = written

\* C21: a thread started by waitpid_in_thread(p) collects the status only
\* of the child that held PID p when waitpid_in_thread was called: whenever
\* os.waitpid in thread t collects child g, g is the child t was started
\* for.
C21_ReaperCollectsOnlyItsChild ==
    [][\A t \in ReaperIds, g \in ChildIds :
          (/\ children[g].st = "zombie"
           /\ children'[g].st = "reaped"
           /\ children'[g].reaped_by = "check_and_waitpid"
           /\ children'[g].reaped_in = t)
          => threads[t].for_gen = g]_vars

\* the numbers of S in ascending order, each once
RECURSIVE Ascending(_)
Ascending(S) ==
    IF S = {} THEN <<>>
    ELSE LET least == CHOOSE x \in S : \A y \in S : x <= y
         IN <<least>> \o Ascending(S \ {least})

\* the argument that names the descriptor numbers of arg and nothing else:
\* each once, in ascending order, as an int, without None
NumbersOnly(arg) ==
    LET numbers == Ascending(PreservedSet(arg))
    IN [given |-> TRUE, elems |-> [i \in DOMAIN numbers |-> IntElem(numbers[i])]]

\* C22: close_all_fds on a list of None, ints and objects with a fileno
\* raises nothing, and the descriptors it leaves open (and the ranges it
\* closes) are those of a call with just the set of descriptor numbers
\* named: None elements, order, repetition and the way a number is given
\* make no difference.
C22_ResultDependsOnNumbersOnly ==
    (fence_pc # "idle" /\ ~HasInvalid(except_fds)) =>
        /\ fence_pc = "returned"
        /\ open_fds = CloseRanges(fds_at_call, FilenoRanges(ExceptFilenos(NumbersOnly(except_fds)).filenos), 1)
        /\ fileno_ranges = FilenoRanges(ExceptFilenos(NumbersOnly(except_fds)).filenos)

\* a call with a file object for descriptor 4 and a None has returned and
\* has kept 4 open, as a call with [4] does
C22_Witness ==
    /\ fence_pc = "returned"
    /\ except_fds.elems = <<FileObj(4), NoneElem>>
    /\ 4 \in open_fds
    /\ 3 \in fds_at_call
    /\ UpperBound - 1 \notin open_fds
    /\ open_fds = CloseRanges(fds_at_call, FilenoRanges(<<1, 2, 4>>), 1)
====
